---- MODULE Spec2Model ----
(***************************************************************************)
(* TreeSet of shoenig/go-set: a red-black tree with parent pointers and a  *)
(* transient marker node used by deletion.  Nodes live in a heap indexed   *)
(* by node ids; 0 is the nil pointer.  Elements are integers ordered by    *)
(* the Compare helper.  A Go panic (explicit, or a nil dereference) stops  *)
(* the program: the heap keeps what had been written when it happened.     *)
(***************************************************************************)
EXTENDS Integers, Sequences, FiniteSets, TLC

\* the set holds tokens with the ids 1..MaxKey
MaxKey == 5

Keys == 1..MaxKey

\* The elements are tokens, as in the tests: token k has the id k, and the
\* token -1 is a second token with the id 1, so that two different elements
\* can compare equal.  0 is the zero value of the element type.
Elements == Keys \cup {-1}

id(x) == IF x < 0 THEN -x ELSE x

\* the nil pointer
Nil == 0

\* the node allocated by NewTreeSet for s.marker
marker == 1

\* the slices handed to the bulk operations hold up to MaxLen items
MaxLen == 2

\* Compare is called on the integers from -MaxOrdinal to MaxOrdinal
MaxOrdinal == 5

\* the tests' tokens, tokenA to tokenH, have the ids 1..MaxToken
MaxToken == 8

Tokens == 1..MaxToken

\* addresses handed out by &node[T]{...} in Insert
NodeIds == 2..((IF MaxKey > MaxToken THEN MaxKey ELSE MaxToken) + 2)

Ptrs == {marker} \cup NodeIds

red == FALSE

black == TRUE

NoPanic == "none"

NilDeref == "nil pointer dereference"

PanicReplaceChild == "node is not child of its parent"

PanicSiblingOf == "bug: parent is not a child of its grandparent"

PanicUncleOf == "bug: parent is not a child of our childs grandparent"

PanicMin == "min: tree is empty"

PanicMax == "max: tree is empty"

\* zero value of node[T] apart from the fields a literal sets
newNode(e, c) ==
  [element |-> e, color |-> c, parent |-> Nil, left |-> Nil, right |-> Nil]

\* root, size, node and panic are the set s under test and the heap its nodes
\* live in; other is a second set, the argument o of s.Subset(o) and
\* s.Union(o), and made the set the last s.Union(o) returned.
VARIABLES root, size, node, panic, call, phase, pending, other, made

vars == <<root, size, node, panic, call, phase, pending, other, made>>

\* The TreeSet as the methods see it: t.root, t.size, the heap, and whether
\* a panic is unwinding.
Fail(t, why) == [t EXCEPT !.panic = why]

\* Compare with the bug of a default case that returns 1
CompareNeverEqual(x, y) ==
  IF x < y THEN -1 ELSE 1

Compare(x, y) ==
  IF x < y THEN -1 ELSE IF x > y THEN 1 ELSE 0

\* the comparator the set was built with: compareTokens
comparison(a, b) == Compare(id(a), id(b))

\* compare with the bug of handing the elements to the comparator the wrong
\* way round
compareSwapped(t, a, b) == comparison(t.node[b].element, t.node[a].element)

compare(t, a, b) == comparison(t.node[a].element, t.node[b].element)

isBlack(t, n) == n = Nil \/ t.node[n].color = black

isRed(t, n) == n # Nil /\ t.node[n].color = red

\* locate with the bug of descending to the wrong side
RECURSIVE locateMirrored(_, _, _)
locateMirrored(t, n, target) ==
  IF n = Nil THEN Nil
  ELSE IF comparison(t.node[n].element, target) < 0
  THEN locateMirrored(t, t.node[n].left, target)
  ELSE IF comparison(t.node[n].element, target) > 0
  THEN locateMirrored(t, t.node[n].right, target)
  ELSE n

RECURSIVE locate(_, _, _)
locate(t, n, target) ==
  IF n = Nil THEN Nil
  ELSE IF comparison(t.node[n].element, target) < 0
  THEN locate(t, t.node[n].right, target)
  ELSE IF comparison(t.node[n].element, target) > 0
  THEN locate(t, t.node[n].left, target)
  ELSE n

\* the assignment p.color = c, which panics on a nil p
setColor(t, p, c) ==
  IF t.panic # NoPanic THEN t
  ELSE IF p = Nil THEN Fail(t, NilDeref)
  ELSE [t EXCEPT !.node[p].color = c]

\* the assignment p.left = v
setLeft(t, p, v) ==
  IF t.panic # NoPanic THEN t
  ELSE IF p = Nil THEN Fail(t, NilDeref)
  ELSE [t EXCEPT !.node[p].left = v]

\* the assignment p.right = v
setRight(t, p, v) ==
  IF t.panic # NoPanic THEN t
  ELSE IF p = Nil THEN Fail(t, NilDeref)
  ELSE [t EXCEPT !.node[p].right = v]

\* the assignment p.parent = v
setParent(t, p, v) ==
  IF t.panic # NoPanic THEN t
  ELSE IF p = Nil THEN Fail(t, NilDeref)
  ELSE [t EXCEPT !.node[p].parent = v]

\* adopt with the bug of leaving child.parent as it was
adoptNever(t, parent, child) == t

\* if child != nil { child.parent = parent }
adopt(t, parent, child) ==
  IF child = Nil THEN t ELSE setParent(t, child, parent)

\* replaceChild with the bug of leaving s.root as it was when the node
\* replaced had no parent
replaceChildKeepingRoot(t, parent, previous, next) ==
  IF t.panic # NoPanic THEN t
  ELSE IF parent = Nil THEN adopt(t, parent, next)
  ELSE IF t.node[parent].left = previous
       THEN adopt(setLeft(t, parent, next), parent, next)
  ELSE IF t.node[parent].right = previous
       THEN adopt(setRight(t, parent, next), parent, next)
  ELSE Fail(t, PanicReplaceChild)

replaceChild(t, parent, previous, next) ==
  IF t.panic # NoPanic THEN t
  ELSE IF parent = Nil THEN adopt([t EXCEPT !.root = next], parent, next)
  ELSE IF t.node[parent].left = previous
       THEN adopt(setLeft(t, parent, next), parent, next)
  ELSE IF t.node[parent].right = previous
       THEN adopt(setRight(t, parent, next), parent, next)
  ELSE Fail(t, PanicReplaceChild)

\* rotateRight once n.left = leftChild.right is done: the subtree that
\* changed sides gets n as its parent
rotateRightInner(t, n, leftChild) ==
  IF t.panic # NoPanic THEN t ELSE adopt(t, n, t.node[leftChild].right)

rotateRight(t, n) ==
  IF t.panic # NoPanic THEN t
  ELSE IF n = Nil THEN Fail(t, NilDeref)
  ELSE IF t.node[n].left = Nil THEN Fail(t, NilDeref)
  ELSE replaceChild(
         setParent(
           setRight(
             rotateRightInner(
               setLeft(t, n, t.node[t.node[n].left].right),
               n, t.node[n].left),
             t.node[n].left, n),
           n, t.node[n].left),
         t.node[n].parent, n, t.node[n].left)

\* rotateLeft that leaves the subtree that changed sides with its old parent
rotateLeftInnerIdle(t, n, rightChild) == t

\* rotateLeft once n.right = rightChild.left is done
rotateLeftInner(t, n, rightChild) ==
  IF t.panic # NoPanic THEN t ELSE adopt(t, n, t.node[rightChild].left)

rotateLeft(t, n) ==
  IF t.panic # NoPanic THEN t
  ELSE IF n = Nil THEN Fail(t, NilDeref)
  ELSE IF t.node[n].right = Nil THEN Fail(t, NilDeref)
  ELSE replaceChild(
         setParent(
           setLeft(
             rotateLeftInner(
               setRight(t, n, t.node[t.node[n].right].left),
               n, t.node[n].right),
             t.node[n].right, n),
           n, t.node[n].right),
         t.node[n].parent, n, t.node[n].right)

\* the result of uncleOf(n): the pointer it returns, or the panic it raises
uncleOf(t, n) ==
  IF t.node[n].parent = Nil THEN [panic |-> NilDeref, val |-> Nil]
  ELSE IF t.node[t.node[n].parent].left = n
       THEN [panic |-> NoPanic, val |-> t.node[t.node[n].parent].right]
  ELSE IF t.node[t.node[n].parent].right = n
       THEN [panic |-> NoPanic, val |-> t.node[t.node[n].parent].left]
  ELSE [panic |-> PanicUncleOf, val |-> Nil]

\* the result of siblingOf(n): the pointer it returns, or the panic it raises
siblingOf(t, n) ==
  IF n = Nil THEN [panic |-> NilDeref, val |-> Nil]
  ELSE IF t.node[n].parent = Nil THEN [panic |-> NilDeref, val |-> Nil]
  ELSE IF n = t.node[t.node[n].parent].left
       THEN [panic |-> NoPanic, val |-> t.node[t.node[n].parent].right]
  ELSE IF n = t.node[t.node[n].parent].right
       THEN [panic |-> NoPanic, val |-> t.node[t.node[n].parent].left]
  ELSE [panic |-> PanicSiblingOf, val |-> Nil]

RECURSIVE min(_, _)
min(t, n) == IF t.node[n].left # Nil THEN min(t, t.node[n].left) ELSE n

RECURSIVE max(_, _)
max(t, n) == IF t.node[n].right # Nil THEN max(t, t.node[n].right) ELSE n

\* recolour with the bug of leaving the uncle red
recolourWithoutUncle(t, parent, grandparent, uncle) ==
  setColor(setColor(t, parent, black), grandparent, red)

\* case 3 of rebalanceInsertion: the recolouring before it recurses
recolour(t, parent, grandparent, uncle) ==
  setColor(setColor(setColor(t, parent, black), grandparent, red), uncle, black)

\* cases 4a and 5a: parent is the left child of grandparent
rotateLeftRight(t, n, parent, grandparent) ==
  IF n = t.node[parent].right
  THEN setColor(setColor(rotateRight(rotateLeft(t, parent), grandparent),
                         n, black),
                grandparent, red)
  ELSE setColor(setColor(rotateRight(t, grandparent), parent, black),
                grandparent, red)

\* cases 4b and 5b: parent is the right child of grandparent
rotateRightLeft(t, n, parent, grandparent) ==
  IF n = t.node[parent].left
  THEN setColor(setColor(rotateLeft(rotateRight(t, parent), grandparent),
                         n, black),
                grandparent, red)
  ELSE setColor(setColor(rotateLeft(t, grandparent), parent, black),
                grandparent, red)

RECURSIVE subtree(_, _)
\* the nodes reached from n by left and right links
subtree(t, n) ==
  IF n = Nil THEN {}
  ELSE {n} \cup subtree(t, t.node[n].left) \cup subtree(t, t.node[n].right)

\* a recursive call of a fixup, made by the call on the node from and handed
\* the node to: the calls of the running Insert or Remove are counted in
\* steps, and upward tells whether each of them was handed a node of the
\* tree that has the node of its caller strictly below it
ascend(t, from, to) ==
  [t EXCEPT !.steps = @ + 1,
            !.upward = @ /\ to # from /\ to \in subtree(t, t.root)
                         /\ from \in subtree(t, to)]

RECURSIVE rebalanceInsertion(_, _)
\* rebalanceInsertionCases with the bug of recursing on n itself in case 3
rebalanceInsertionCasesInPlace(t, n, parent, grandparent, uncle) ==
  IF uncle.panic # NoPanic THEN Fail(t, uncle.panic)
  ELSE IF uncle.val # Nil /\ isRed(t, uncle.val)
  THEN rebalanceInsertion(
         ascend(recolour(t, parent, grandparent, uncle.val), n, n), n)
  ELSE IF parent = t.node[grandparent].left
  THEN rotateLeftRight(t, n, parent, grandparent)
  ELSE rotateRightLeft(t, n, parent, grandparent)

\* rebalanceInsertion from the switch on, with parent, grandparent and uncle read
rebalanceInsertionCases(t, n, parent, grandparent, uncle) ==
  IF uncle.panic # NoPanic THEN Fail(t, uncle.panic)
  ELSE IF uncle.val # Nil /\ isRed(t, uncle.val)
  THEN rebalanceInsertion(
         ascend(recolour(t, parent, grandparent, uncle.val), n, grandparent),
         grandparent)
  ELSE IF parent = t.node[grandparent].left
  THEN rotateLeftRight(t, n, parent, grandparent)
  ELSE rotateRightLeft(t, n, parent, grandparent)

rebalanceInsertion(t, n) ==
  IF t.node[n].parent = Nil THEN setColor(t, n, black)
  ELSE IF isBlack(t, t.node[n].parent) THEN t
  ELSE IF t.node[t.node[n].parent].parent = Nil
  THEN setColor(t, t.node[n].parent, black)
  ELSE rebalanceInsertionCases(t, n, t.node[n].parent,
                               t.node[t.node[n].parent].parent,
                               uncleOf(t, t.node[n].parent))

\* insertSearch with the bug of walking on to the right of a node whose
\* element compares equal
RECURSIVE insertSearchPastEqual(_, _, _, _)
insertSearchPastEqual(t, n, parent, tmp) ==
  IF tmp = Nil THEN [exists |-> FALSE, parent |-> parent]
  ELSE IF compare(t, n, tmp) < 0
  THEN insertSearchPastEqual(t, n, tmp, t.node[tmp].left)
  ELSE insertSearchPastEqual(t, n, tmp, t.node[tmp].right)

\* the search loop of insert: the node under which n belongs, or that an
\* element comparing equal is already stored
RECURSIVE insertSearch(_, _, _, _)
insertSearch(t, n, parent, tmp) ==
  IF tmp = Nil THEN [exists |-> FALSE, parent |-> parent]
  ELSE IF compare(t, n, tmp) < 0 THEN insertSearch(t, n, tmp, t.node[tmp].left)
  ELSE IF compare(t, n, tmp) > 0 THEN insertSearch(t, n, tmp, t.node[tmp].right)
  ELSE [exists |-> TRUE, parent |-> tmp]

\* the end of insert: s.size++; return true
insertEnd(t) ==
  IF t.panic # NoPanic THEN t
  ELSE [t EXCEPT !.size = @ + 1, !.ret = TRUE]

\* attach with the bug of not setting n.parent
attachWithoutParent(t, n, parent) ==
  IF parent = Nil THEN [t EXCEPT !.root = n]
  ELSE IF compare(t, n, parent) < 0 THEN setLeft(t, parent, n)
  ELSE setRight(t, parent, n)

\* attach with the bug of hanging the new node on the wrong side of its parent
attachMirrored(t, n, parent) ==
  setParent(
    IF parent = Nil THEN [t EXCEPT !.root = n]
    ELSE IF compare(t, n, parent) > 0 THEN setLeft(t, parent, n)
    ELSE setRight(t, parent, n),
    n, parent)

\* insert once the search has ended at parent with no equal element: n is
\* linked under parent
attach(t, n, parent) ==
  setParent(
    IF parent = Nil THEN [t EXCEPT !.root = n]
    ELSE IF compare(t, n, parent) < 0 THEN setLeft(t, parent, n)
    ELSE setRight(t, parent, n),
    n, parent)

\* insertAt with the bug of storing the new element over the one it equals
insertAtReplacing(t, n, found) ==
  IF found.exists
  THEN [t EXCEPT !.node[found.parent].element = t.node[n].element, !.ret = FALSE]
  ELSE insertEnd(rebalanceInsertion(attach(setColor(t, n, red), n, found.parent), n))

\* insert with the search done
insertAt(t, n, found) ==
  IF found.exists THEN [t EXCEPT !.ret = FALSE]
  ELSE insertEnd(rebalanceInsertion(attach(setColor(t, n, red), n, found.parent), n))

\* insert(n): t.ret is the boolean it returns
insert(t, n) == insertAt(t, n, insertSearch(t, n, Nil, t.root))

\* what delete01 returns after its replaceChild, which left the tree as t
spliced(t, pointer) == [st |-> t, moved |-> pointer]

\* delete01(n): st is the tree afterwards, moved the pointer it returns
delete01(t, n) ==
  IF t.node[n].left # Nil
  THEN spliced(replaceChild(t, t.node[n].parent, n, t.node[n].left), t.node[n].left)
  ELSE IF t.node[n].right # Nil
  THEN spliced(replaceChild(t, t.node[n].parent, n, t.node[n].right), t.node[n].right)
  ELSE IF isBlack(t, n)
  THEN spliced(replaceChild(t, t.node[n].parent, n, marker), marker)
  ELSE spliced(replaceChild(t, t.node[n].parent, n, Nil), Nil)

\* rotateTowards with the bug of rotating the parent away from n
rotateAway(t, n) ==
  IF t.panic # NoPanic THEN t
  ELSE IF t.node[n].parent = Nil THEN Fail(t, NilDeref)
  ELSE IF n = t.node[t.node[n].parent].left THEN rotateRight(t, t.node[n].parent)
  ELSE rotateLeft(t, t.node[n].parent)

\* the rotation that ends fixRedSibling
rotateTowards(t, n) ==
  IF t.panic # NoPanic THEN t
  ELSE IF t.node[n].parent = Nil THEN Fail(t, NilDeref)
  ELSE IF n = t.node[t.node[n].parent].left THEN rotateLeft(t, t.node[n].parent)
  ELSE rotateRight(t, t.node[n].parent)

fixRedSibling(t, n, sibling) ==
  IF t.panic # NoPanic THEN t
  ELSE rotateTowards(setColor(setColor(t, sibling, black), t.node[n].parent, red), n)

\* p.left or p.right of a node p that is not nil
childOf(t, p, side) ==
  IF side = "left" THEN t.node[p].left ELSE t.node[p].right

\* rotateLeft or rotateRight
rotate(t, n, side) ==
  IF side = "left" THEN rotateLeft(t, n) ELSE rotateRight(t, n)

\* the end of fixBlackSibling: sibling takes the colour of the parent, the
\* parent and the far child of sibling turn black, and the parent is rotated
\* towards n
fixBlackSiblingOuter(t, n, sibling, near, far) ==
  IF t.panic # NoPanic THEN t
  ELSE IF sibling = Nil \/ t.node[n].parent = Nil THEN Fail(t, NilDeref)
  ELSE rotate(
         setColor(
           setColor(
             setColor(t, sibling, t.node[t.node[n].parent].color),
             t.node[n].parent, black),
           childOf(t, sibling, far), black),
         t.node[n].parent, near)

\* fixBlackSibling after its rotation at the sibling: the sibling is read anew
fixBlackSiblingTurned(t, n, near, far) ==
  IF t.panic # NoPanic THEN t
  ELSE IF t.node[n].parent = Nil THEN Fail(t, NilDeref)
  ELSE fixBlackSiblingOuter(t, n, childOf(t, t.node[n].parent, far), near, far)

\* fixBlackSibling with n on the near side of its parent
fixBlackSiblingOn(t, n, sibling, near, far) ==
  IF isBlack(t, childOf(t, sibling, far))
  THEN fixBlackSiblingTurned(
         rotate(
           setColor(setColor(t, childOf(t, sibling, near), black), sibling, red),
           sibling, far),
         n, near, far)
  ELSE fixBlackSiblingOuter(t, n, sibling, near, far)

fixBlackSibling(t, n, sibling) ==
  IF t.panic # NoPanic THEN t
  ELSE IF t.node[n].parent = Nil \/ sibling = Nil THEN Fail(t, NilDeref)
  ELSE IF n = t.node[t.node[n].parent].left
  THEN fixBlackSiblingOn(t, n, sibling, "left", "right")
  ELSE fixBlackSiblingOn(t, n, sibling, "right", "left")

RECURSIVE rebalanceDeletion(_, _)
\* rebalanceDeletion after the sibling with two black children was coloured red
rebalanceDeletionUp(t, n) ==
  IF t.panic # NoPanic THEN t
  ELSE IF isRed(t, t.node[n].parent) THEN setColor(t, t.node[n].parent, black)
  ELSE rebalanceDeletion(ascend(t, n, t.node[n].parent), t.node[n].parent)

\* rebalanceDeletion with a sibling that is not red
rebalanceDeletionBlack(t, n, sibling) ==
  IF t.panic # NoPanic THEN t
  ELSE IF sibling.panic # NoPanic THEN Fail(t, sibling.panic)
  ELSE IF sibling.val = Nil THEN Fail(t, NilDeref)
  ELSE IF /\ isBlack(t, t.node[sibling.val].left)
          /\ isBlack(t, t.node[sibling.val].right)
  THEN rebalanceDeletionUp(setColor(t, sibling.val, red), n)
  ELSE fixBlackSibling(t, n, sibling.val)

\* rebalanceDeletion after fixRedSibling: the sibling is read anew
rebalanceDeletionRed(t, n) ==
  IF t.panic # NoPanic THEN t
  ELSE rebalanceDeletionBlack(t, n, siblingOf(t, n))

\* rebalanceDeletion with the sibling read
rebalanceDeletionWith(t, n, sibling) ==
  IF sibling.panic # NoPanic THEN Fail(t, sibling.panic)
  ELSE IF isRed(t, sibling.val)
  THEN rebalanceDeletionRed(fixRedSibling(t, n, sibling.val), n)
  ELSE rebalanceDeletionBlack(t, n, sibling)

rebalanceDeletion(t, n) ==
  IF t.panic # NoPanic THEN t
  ELSE IF n = t.root THEN setColor(t, n, black)
  ELSE rebalanceDeletionWith(t, n, siblingOf(t, n))

\* deleteEnd with the bug of leaving s.size as it is
deleteEndKeepingSize(t) ==
  IF t.panic # NoPanic THEN t
  ELSE [t EXCEPT !.node[marker] = newNode(@.element, black),
                 !.ret = TRUE]

\* the end of delete: s.size--, the marker is reset, return true
deleteEnd(t) ==
  IF t.panic # NoPanic THEN t
  ELSE [t EXCEPT !.size = @ - 1,
                 !.node[marker] = newNode(@.element, black),
                 !.ret = TRUE]

\* removeMarker with the bug of leaving the marker where it is
removeMarkerNever(t, moved) == t

\* delete after rebalanceDeletion: the marker is taken out of the tree
removeMarker(t, moved) ==
  IF t.panic # NoPanic THEN t
  ELSE IF moved = marker THEN replaceChild(t, t.node[moved].parent, moved, Nil)
  ELSE t

\* delete after delete01 returned d: gone is the node whose colour is read
\* into deleted
rebalance(d, gone) ==
  IF d.st.panic # NoPanic THEN d.st
  ELSE IF d.st.node[gone].color = black
  THEN deleteEnd(removeMarker(rebalanceDeletion(d.st, d.moved), d.moved))
  ELSE deleteEnd(d.st)

\* the element of the successor is copied into n
copyElement(t, n, successor) ==
  [t EXCEPT !.node[n].element = t.node[successor].element]

\* deleteNode with the bug of reporting a change when nothing was located
deleteNodeAbsentReported(t, n) ==
  IF n = Nil THEN [t EXCEPT !.ret = TRUE]
  ELSE IF t.node[n].left = Nil \/ t.node[n].right = Nil
  THEN rebalance(delete01(t, n), n)
  ELSE rebalance(delete01(copyElement(t, n, min(t, t.node[n].right)), n),
                 min(t, t.node[n].right))

\* delete with n located
deleteNode(t, n) ==
  IF n = Nil THEN [t EXCEPT !.ret = FALSE]
  ELSE IF t.node[n].left = Nil \/ t.node[n].right = Nil
  THEN rebalance(delete01(t, n), n)
  ELSE rebalance(delete01(copyElement(t, n, min(t, t.node[n].right)), n),
                 min(t, t.node[n].right))

\* delete(element): t.ret is the boolean it returns
delete(t, element) == deleteNode(t, locate(t, t.root, element))

\* infix with the bug of not visiting the right subtree
RECURSIVE infixSkipping(_, _)
infixSkipping(t, n) ==
  IF n = Nil THEN << >>
  ELSE infixSkipping(t, t.node[n].left) \o <<t.node[n].element>>

RECURSIVE infix(_, _)
infix(t, n) ==
  IF n = Nil THEN << >>
  ELSE infix(t, t.node[n].left) \o <<t.node[n].element>> \o infix(t, t.node[n].right)

Slice(t) == infix(t, t.root)

Size(t) == t.size

Empty(t) == Size(t) = 0

\* s.Min(): the element it returns in val, or the panic it raises
Min(t) ==
  IF t.root = Nil THEN [panic |-> PanicMin, val |-> 0]
  ELSE [panic |-> NoPanic, val |-> t.node[min(t, t.root)].element]

\* s.Max(): the element it returns in val, or the panic it raises
Max(t) ==
  IF t.root = Nil THEN [panic |-> PanicMax, val |-> 0]
  ELSE [panic |-> NoPanic, val |-> t.node[max(t, t.root)].element]

\* the nodes the program can still get at: from s.root and s.marker along
\* left, right and parent
RECURSIVE reach(_, _, _)
reach(t, seen, todo) ==
  IF todo = {} THEN seen
  ELSE LET seen2 == seen \cup todo
           nxt == UNION {{t.node[p].left, t.node[p].right, t.node[p].parent} : p \in todo}
       IN reach(t, seen2, (nxt \ {Nil}) \ seen2)

live(t) == reach(t, {}, {t.root, marker} \ {Nil})

\* the nodes of the tree under n, parents before children
RECURSIVE prefix(_, _)
prefix(t, n) ==
  IF n = Nil THEN << >>
  ELSE <<n>> \o prefix(t, t.node[n].left) \o prefix(t, t.node[n].right)

\* the members of a set of addresses, lowest first
RECURSIVE ascending(_)
ascending(S) ==
  IF S = {} THEN << >>
  ELSE LET p == CHOOSE x \in S : \A y \in S : x <= y
       IN <<p>> \o ascending(S \ {p})

\* A Go pointer has an identity and nothing else.  Memory no pointer leads to
\* is returned to the allocator, and the nodes that are left are given the
\* addresses 2, 3, ... in the order of prefix, so that two heaps of the same
\* shape are the same heap.  The record of the recursive calls, which is kept
\* per call and is no part of the set, is cleared.
collect(t) ==
  LET inTree == SelectSeq(prefix(t, t.root), LAMBDA p : p # marker)
      others == live(t) \ ({marker} \cup {inTree[i] : i \in 1..Len(inTree)})
      order == inTree \o ascending(others)
      at(p) == IF p = Nil \/ p = marker THEN p
               ELSE 1 + CHOOSE i \in 1..Len(order) : order[i] = p
      moved(r) == [r EXCEPT !.parent = at(@), !.left = at(@), !.right = at(@)]
  IN [t EXCEPT !.steps = 0,
               !.upward = TRUE,
               !.root = at(@),
               !.node = [p \in Ptrs |->
                           IF p = marker THEN moved(t.node[marker])
                           ELSE IF p - 1 <= Len(order) THEN moved(t.node[order[p - 1]])
                           ELSE newNode(0, red)]]

\* the address the next &node[T]{...} gets
alloc(t) == CHOOSE p \in NodeIds \ live(t) : \A q \in NodeIds \ live(t) : p <= q

cur ==
  [root |-> root, size |-> size, node |-> node, panic |-> panic, ret |-> FALSE,
   steps |-> 0, upward |-> TRUE]

NoCall == [name |-> "NewTreeSet", item |-> 0, result |-> FALSE]

\* the set NewTreeSet returns, in a heap of its own: no two sets share a node
NewTreeSet ==
  [root |-> Nil,
   size |-> 0,
   node |-> [p \in Ptrs |-> IF p = marker THEN newNode(0, black) ELSE newNode(0, red)],
   panic |-> NoPanic,
   ret |-> FALSE,
   steps |-> 0,
   upward |-> TRUE]

\* NewTreeSet
Init ==
  /\ root = Nil
  /\ size = 0
  /\ node = [p \in Ptrs |-> IF p = marker THEN newNode(0, black) ELSE newNode(0, red)]
  /\ panic = NoPanic
  /\ call = NoCall
  /\ phase = "free"
  /\ pending = {}
  /\ other = NewTreeSet
  /\ made = NewTreeSet

\* s.Insert(item): a node is allocated for item and handed to insert
Insert(t, item) ==
  LET n == alloc(t)
  IN insert([t EXCEPT !.node[n] = newNode(item, red)], n)

\* s.Remove(item)
Remove(t, item) == delete(t, item)

RECURSIVE insertEach(_, _, _)
\* InsertSlice after one Insert, which left the set as t
insertNext(t, rest, modified) == insertEach(t, rest, modified /\ t.ret)

\* the loop of InsertSlice: items are still to be inserted, and modified
\* tells whether every Insert so far returned true
insertEach(t, items, modified) ==
  IF t.panic # NoPanic THEN t
  ELSE IF items = << >> THEN [t EXCEPT !.ret = modified]
  ELSE insertNext(Insert(t, Head(items)), Tail(items), modified)

\* s.InsertSlice(items): t.ret is the boolean it returns
InsertSlice(t, items) == insertEach(t, items, TRUE)

RECURSIVE removeEach(_, _, _)
\* RemoveSlice after one Remove, which left the set as t
removeNext(t, rest, modified) == removeEach(t, rest, modified /\ t.ret)

\* the loop of RemoveSlice
removeEach(t, items, modified) ==
  IF t.panic # NoPanic THEN t
  ELSE IF items = << >> THEN [t EXCEPT !.ret = modified]
  ELSE removeNext(Remove(t, Head(items)), Tail(items), modified)

\* s.RemoveSlice(items): t.ret is the boolean it returns
RemoveSlice(t, items) == removeEach(t, items, TRUE)

\* TreeSetFrom(items, compare): a new set with the items inserted
TreeSetFrom(items) == [InsertSlice(NewTreeSet, items) EXCEPT !.ret = FALSE]

\* s.Contains(item)
Contains(t, item) == locate(t, t.root, item) # Nil

\* s.Subset(o): every element of o, visited in order, is looked up in s
Subset(s, o) == \A i \in 1..Len(Slice(o)) : Contains(s, Slice(o)[i])

\* s.Union(o): a new set, into which the elements of s and then those of o
\* are inserted
Union(s, o) == InsertSlice(NewTreeSet, Slice(s) \o Slice(o))

\* the program after a call that left the set as t
step(t, name, item) ==
  /\ root' = t.root
  /\ size' = t.size
  /\ node' = t.node
  /\ panic' = t.panic
  /\ call' = [name |-> name, item |-> item, result |-> t.ret]

\* A caller calls s.Insert(item).  size is capped at MaxKey, which only a
\* set that counts more elements than it holds can exceed.
CallInsert(item) ==
  /\ panic = NoPanic
  /\ size < MaxKey
  /\ NodeIds \ live(cur) # {}
  /\ step(collect(Insert(cur, item)), "Insert", item)
  /\ UNCHANGED <<phase, pending, other, made>>

\* A caller calls s.Remove(item).
CallRemove(item) ==
  /\ panic = NoPanic
  /\ step(collect(Remove(cur, item)), "Remove", item)
  /\ UNCHANGED <<phase, pending, other, made>>

\* A caller calls s.Min(): the set is read, and the call panics on a set
\* without a root.
CallMin ==
  /\ panic = NoPanic
  /\ panic' = Min(cur).panic
  /\ call' = [name |-> "Min", item |-> 0, result |-> FALSE]
  /\ UNCHANGED <<root, size, node, phase, pending, other, made>>

\* A caller calls s.Max().
CallMax ==
  /\ panic = NoPanic
  /\ panic' = Max(cur).panic
  /\ call' = [name |-> "Max", item |-> 0, result |-> FALSE]
  /\ UNCHANGED <<root, size, node, phase, pending, other, made>>

Next ==
  \/ \E item \in Elements : CallInsert(item)
  \/ \E item \in Elements : CallRemove(item)
  \/ CallMin
  \/ CallMax

Spec == Init /\ [][Next]_vars

\* Insert calls alone, in any order, as TestTreeSet_Insert_int makes them
NextInsert == \E item \in Elements : CallInsert(item)

SpecInsert == Init /\ [][NextInsert]_vars

(***************************************************************************)
(* The tests' scenario: the tokens are inserted in order, tokenA first, as *)
(* TestTreeSet_Insert_token does, and then the tokens that were inserted   *)
(* are removed once each, in any order, as TestTreeSet_Remove_int does.    *)
(* pending holds the tokens inserted and not yet removed.                  *)
(***************************************************************************)
InitTokens ==
  /\ root = Nil
  /\ size = 0
  /\ node = [p \in Ptrs |-> IF p = marker THEN newNode(0, black) ELSE newNode(0, red)]
  /\ panic = NoPanic
  /\ call = NoCall
  /\ phase = "fill"
  /\ pending = {}
  /\ other = NewTreeSet
  /\ made = NewTreeSet

InsertToken(item) ==
  /\ panic = NoPanic
  /\ phase = "fill"
  /\ item = Cardinality(pending) + 1
  /\ step(collect(Insert(cur, item)), "Insert", item)
  /\ pending' = pending \cup {item}
  /\ phase' = "fill"
  /\ UNCHANGED <<other, made>>

RemoveToken(item) ==
  /\ panic = NoPanic
  /\ item \in pending
  /\ step(collect(Remove(cur, item)), "Remove", item)
  /\ pending' = pending \ {item}
  /\ phase' = "drain"
  /\ UNCHANGED <<other, made>>

NextTokens ==
  \/ \E item \in Tokens : InsertToken(item)
  \/ \E item \in Tokens : RemoveToken(item)

SpecTokens == InitTokens /\ [][NextTokens]_vars

(***************************************************************************)
(* The bulk operations, as TestTreeSet_InsertSlice and                     *)
(* TestTreeSet_RemoveSlice use them: a set is built from a slice, and one  *)
(* bulk call is made on it.  Slices holds the slices a caller may pass,    *)
(* and TestSlices the slices the tests build their sets from.              *)
(***************************************************************************)
Slices == UNION {[1..n -> Elements] : n \in 0..MaxLen}

TestSlices ==
  {<< >>, <<1, 2, 3>>, <<2, 1, 3>>, <<3, 1, 2>>, <<2, 3, 1>>, <<2>>,
   <<1, 2, 3, 4, 5>>, <<5, 4, 1, 2, 3>>, <<5, 4, 2, 1, 3>>, <<5, 1, 2, 3>>,
   <<2, 5, 1, 2, 4>>}

InitBulk ==
  /\ root = Nil
  /\ size = 0
  /\ node = [p \in Ptrs |-> IF p = marker THEN newNode(0, black) ELSE newNode(0, red)]
  /\ panic = NoPanic
  /\ call = NoCall
  /\ phase = "new"
  /\ pending = {}
  /\ other = NewTreeSet
  /\ made = NewTreeSet

\* ts := TreeSetFrom(items, compare)
CallTreeSetFrom(items) ==
  /\ phase = "new"
  /\ step(collect(TreeSetFrom(items)), "TreeSetFrom", 0)
  /\ phase' = "built"
  /\ UNCHANGED <<pending, other, made>>

\* ts.InsertSlice(items)
CallInsertSlice(items) ==
  /\ panic = NoPanic
  /\ phase = "built"
  /\ step(collect(InsertSlice(cur, items)), "InsertSlice", items)
  /\ phase' = "done"
  /\ UNCHANGED <<pending, other, made>>

\* ts.RemoveSlice(items)
CallRemoveSlice(items) ==
  /\ panic = NoPanic
  /\ phase = "built"
  /\ step(collect(RemoveSlice(cur, items)), "RemoveSlice", items)
  /\ phase' = "done"
  /\ UNCHANGED <<pending, other, made>>

NextBulk ==
  \/ \E items \in Slices \cup TestSlices : CallTreeSetFrom(items)
  \/ \E items \in Slices : CallInsertSlice(items)
  \/ \E items \in Slices : CallRemoveSlice(items)

SpecBulk == InitBulk /\ [][NextBulk]_vars

(***************************************************************************)
(* Two sets, as TestTreeSet_Subset and TestTreeSet_Union use them: s and   *)
(* other are built from a slice each, and s.Subset(other) or               *)
(* s.Union(other) is called.                                               *)
(***************************************************************************)
InitAlgebra ==
  /\ root = Nil
  /\ size = 0
  /\ node = [p \in Ptrs |-> IF p = marker THEN newNode(0, black) ELSE newNode(0, red)]
  /\ panic = NoPanic
  /\ call = NoCall
  /\ phase = "new"
  /\ pending = {}
  /\ other = NewTreeSet
  /\ made = NewTreeSet

\* t1 := TreeSetFrom(items, compare)
BuildSelf(items) ==
  /\ phase = "new"
  /\ step(collect(TreeSetFrom(items)), "TreeSetFrom", 0)
  /\ phase' = "self"
  /\ UNCHANGED <<pending, other, made>>

\* t2 := TreeSetFrom(items, compare)
BuildOther(items) ==
  /\ phase = "self"
  /\ other' = collect(TreeSetFrom(items))
  /\ phase' = "both"
  /\ UNCHANGED <<root, size, node, panic, call, pending, made>>

\* t1.Subset(t2)
CallSubset ==
  /\ phase = "both"
  /\ call' = [name |-> "Subset", item |-> 0, result |-> Subset(cur, other)]
  /\ phase' = "done"
  /\ UNCHANGED <<root, size, node, panic, pending, other, made>>

\* result := t1.Union(t2)
CallUnion ==
  /\ phase = "both"
  /\ made' = collect(Union(cur, other))
  /\ call' = [name |-> "Union", item |-> 0, result |-> FALSE]
  /\ phase' = "done"
  /\ UNCHANGED <<root, size, node, panic, pending, other>>

NextAlgebra ==
  \/ \E items \in Slices \cup TestSlices : BuildSelf(items)
  \/ \E items \in Slices \cup TestSlices : BuildOther(items)
  \/ CallSubset
  \/ CallUnion

SpecAlgebra == InitAlgebra /\ [][NextAlgebra]_vars

(***************************************************************************)
(* The comparator helper on its own: Compare is a function of its two      *)
(* arguments, which a caller takes from Ordinals.                          *)
(***************************************************************************)
Ordinals == (0 - MaxOrdinal)..MaxOrdinal

InitCompare ==
  /\ root = Nil
  /\ size = 0
  /\ node = [p \in Ptrs |-> IF p = marker THEN newNode(0, black) ELSE newNode(0, red)]
  /\ panic = NoPanic
  /\ call = NoCall
  /\ phase = "compare"
  /\ pending = {}
  /\ other = NewTreeSet
  /\ made = NewTreeSet

\* A caller calls Compare(x, y).
CallCompare(x, y) ==
  /\ call' = [name |-> "Compare", item |-> <<x, y>>, result |-> Compare(x, y)]
  /\ UNCHANGED <<root, size, node, panic, phase, pending, other, made>>

NextCompare == \E x \in Ordinals : \E y \in Ordinals : CallCompare(x, y)

SpecCompare == InitCompare /\ [][NextCompare]_vars

(***************************************************************************)
(* Vocabulary of the properties.                                           *)
(***************************************************************************)
\* the nodes reachable from the root along left and right
treeNodes(t) == {prefix(t, t.root)[i] : i \in 1..Len(prefix(t, t.root))}

\* the elements the traversal produces
elems(t) == {Slice(t)[i] : i \in 1..Len(Slice(t))}

\* an element comparing equal to e is in the set
has(t, e) == \E x \in elems(t) : comparison(x, e) = 0

strictlyAscending(seq) ==
  \A i \in 1..(Len(seq) - 1) : comparison(seq[i], seq[i + 1]) < 0

\* seq without the elements comparing equal to e
without(seq, e) == SelectSeq(seq, LAMBDA x : comparison(x, e) # 0)

\* the numbers of black nodes on the paths from n to an absent child
RECURSIVE blackCounts(_, _)
blackCounts(t, n) ==
  IF n = Nil THEN {0}
  ELSE LET below == blackCounts(t, t.node[n].left) \cup blackCounts(t, t.node[n].right)
           own == IF t.node[n].color = black THEN 1 ELSE 0
       IN {c + own : c \in below}

returned == panic = NoPanic

\* the red-black invariants of the tree of t
redBlack(t) ==
  /\ t.root # Nil => t.node[t.root].color = black
  /\ \A p \in treeNodes(t) :
       isRed(t, p) => isBlack(t, t.node[p].left) /\ isBlack(t, t.node[p].right)
  /\ Cardinality(blackCounts(t, t.root)) = 1
  /\ strictlyAscending(Slice(t))

\* what delete01 leaves when delete calls it for the node n it located
splicedFor(t, n) ==
  IF t.node[n].left = Nil \/ t.node[n].right = Nil THEN delete01(t, n)
  ELSE delete01(copyElement(t, n, min(t, t.node[n].right)), n)

\* the colour delete reads into deleted for the node n it located
deletedFor(t, n) ==
  IF t.node[n].left = Nil \/ t.node[n].right = Nil THEN t.node[n].color
  ELSE t.node[min(t, t.node[n].right)].color

RECURSIVE siblingsPresent(_, _)
\* the deletion fixup at n, past the red-sibling step, with the sibling
\* sibling: where it goes on at the parent of n, the siblings read there are
\* as the fixup needs them
siblingsPresentOnward(t, n, sibling) ==
  (/\ isBlack(t, t.node[sibling].left)
   /\ isBlack(t, t.node[sibling].right)
   /\ ~isRed(t, t.node[n].parent))
    => siblingsPresent(setColor(t, sibling, red), t.node[n].parent)

\* after fixRedSibling left the tree as t, the sibling of n read anew is
\* present and black
siblingsPresentAfterRed(t, n) ==
  /\ t.panic = NoPanic
  /\ siblingOf(t, n).panic = NoPanic
  /\ siblingOf(t, n).val # Nil
  /\ isBlack(t, siblingOf(t, n).val)
  /\ siblingsPresentOnward(t, n, siblingOf(t, n).val)

\* in the deletion fixup that starts at n, every deficit node that is not
\* the root has a sibling, and the sibling read after the red-sibling step
\* is present and black
siblingsPresent(t, n) ==
  \/ n = t.root
  \/ /\ siblingOf(t, n).panic = NoPanic
     /\ siblingOf(t, n).val # Nil
     /\ IF isRed(t, siblingOf(t, n).val)
        THEN siblingsPresentAfterRed(fixRedSibling(t, n, siblingOf(t, n).val), n)
        ELSE siblingsPresentOnward(t, n, siblingOf(t, n).val)

\* r is t with the node n rotated below its former child on the side from:
\* the in-order sequence is that of t, child is the parent of n, the subtree
\* grandchild of child that was on the other side hangs from n on the side
\* from, and parent, the parent n had (or the root pointer), links to child
rotated(t, r, n, from, child, grandchild, parent) ==
  /\ r.panic = NoPanic
  /\ Slice(r) = Slice(t)
  /\ elems(r) = elems(t)
  /\ r.node[n].parent = child
  /\ childOf(r, child, IF from = "left" THEN "right" ELSE "left") = n
  /\ childOf(r, n, from) = grandchild
  /\ grandchild # Nil => r.node[grandchild].parent = n
  /\ r.node[child].parent = parent
  /\ IF parent = Nil THEN r.root = child
     ELSE IF t.node[parent].left = n THEN r.node[parent].left = child
     ELSE r.node[parent].right = child

RECURSIVE levels(_, _)
\* the number of nodes on the longest way down from n
levels(t, n) ==
  IF n = Nil THEN 0
  ELSE 1 + (IF levels(t, t.node[n].left) >= levels(t, t.node[n].right)
            THEN levels(t, t.node[n].left)
            ELSE levels(t, t.node[n].right))

\* the height of the tree: the number of links on the longest way down from
\* the root
height(t) == IF t.root = Nil THEN 0 ELSE levels(t, t.root) - 1

\* the call that left the set as r, made on the set t, handed every recursive
\* call of its fixup a strict ancestor, and made no more of them than the
\* tree of t is high
climbed(t, r) == r.upward /\ r.steps <= height(t)

\* what a call that returned result adds to the number of Insert calls that
\* returned true less the number of Remove calls that returned true
counted(name, result) ==
  IF ~result THEN 0
  ELSE IF name = "Insert" THEN 1
  ELSE IF name = "Remove" THEN 0 - 1
  ELSE 0

\* the elements stored in the nodes of the tree
contents(t) == {t.node[p].element : p \in treeNodes(t)}

\* the nodes of the subtree of n, as left and right lead to them
under(t, n) == {prefix(t, n)[i] : i \in 1..Len(prefix(t, n))}

\* every element of the set a has an equal in the set b
within(a, b) == \A x \in contents(a) : \E y \in contents(b) : comparison(x, y) = 0

\* the members of a set of elements no two of which compare equal, lowest
\* first
RECURSIVE sorted(_)
sorted(S) ==
  IF S = {} THEN << >>
  ELSE LET m == CHOOSE x \in S : \A y \in S : comparison(x, y) <= 0
       IN <<m>> \o sorted(S \ {m})

\* the positions of items whose item compares equal to no earlier one
firsts(items) ==
  {i \in 1..Len(items) : \A j \in 1..(i - 1) : comparison(items[j], items[i]) # 0}

\* the items a set holding the elements of seq gains from items: each the
\* first among its equals, and none with an equal in seq
gained(t, items) == {items[i] : i \in {j \in firsts(items) : ~has(t, items[j])}}

(***************************************************************************)
(* Properties.                                                             *)
(***************************************************************************)
\* C1: after any sequence of Insert and Remove calls from the empty set,
\* Size() is the number of elements the in-order traversal Slice() produces.
C1_SizeIsTraversalLength ==
  returned => Size(cur) = Len(Slice(cur))

\* C2: Remove(item) returns true iff an element comparing equal to item was
\* present; after a true result the set holds the previous elements minus
\* that one, each of them still found by locate and still in Slice().
C2_RemoveContract ==
  [][(call'.name = "Remove" /\ returned')
       => LET e == call'.item
          IN /\ call'.result = has(cur, e)
             /\ call'.result =>
                  /\ Slice(cur') = without(Slice(cur), e)
                  /\ \A x \in elems(cur) :
                       comparison(x, e) # 0 => locate(cur', root', x) # Nil]_vars

\* C3: after every Insert or Remove call that returns, no red node reachable
\* from the root has a red child.
C3_NoRedRed ==
  returned => \A p \in treeNodes(cur) :
                isRed(cur, p) => /\ isBlack(cur, node[p].left)
                                 /\ isBlack(cur, node[p].right)

\* C4: after every Insert or Remove call that returns, every path from the
\* root to an absent child passes through the same number of black nodes.
C4_BlackHeight ==
  returned => Cardinality(blackCounts(cur, root)) = 1

\* C5: after every Insert or Remove call that returns, the root, if there is
\* one, is black.
C5_RootBlack ==
  returned => (root # Nil => node[root].color = black)

\* C6: after any sequence of Insert and Remove calls, Slice() is strictly
\* ascending under the comparator.
C6_Ascending ==
  returned => strictlyAscending(Slice(cur))

C6_Witness ==
  /\ returned
  /\ call.name = "Remove"
  /\ call.result
  /\ Len(Slice(cur)) >= 3

\* C7: Insert(item) returns true iff no element comparing equal to item was
\* present before the call; after a true result the set holds the previous
\* elements plus item, and Size() has grown by one.
C7_InsertContract ==
  [][(call'.name = "Insert" /\ returned')
       => LET e == call'.item
          IN /\ call'.result = ~has(cur, e)
             /\ call'.result =>
                  /\ elems(cur') = elems(cur) \cup {e}
                  /\ Len(Slice(cur')) = Len(Slice(cur)) + 1
                  /\ Size(cur') = Size(cur) + 1]_vars

C7_Witness ==
  /\ returned
  /\ call.name = "Insert"
  /\ call.result
  /\ call.item \in elems(cur)
  /\ Len(Slice(cur)) >= 4

\* C8: inserting an element that compares equal to one already present
\* returns false and leaves Size(), Slice(), the stored element and the
\* shape and colours of the tree as they were.
C8_DuplicateInsertChangesNothing ==
  [][(call'.name = "Insert" /\ has(cur, call'.item))
       => /\ returned'
          /\ call'.result = FALSE
          /\ Size(cur') = Size(cur)
          /\ Slice(cur') = Slice(cur)
          /\ root' = root
          /\ node' = node]_vars

C8_Witness ==
  /\ returned
  /\ call = [name |-> "Insert", item |-> -1, result |-> FALSE]
  /\ 1 \in elems(cur)
  /\ Len(Slice(cur)) >= 3

\* C9: for a reachable set and an element e not in it, Insert(e) followed by
\* Remove(e) returns the set to its prior Size() and its prior Slice().
C9_InsertThenRemoveRestores ==
  returned
    => \A e \in Elements :
         ~has(cur, e)
           => /\ Remove(Insert(cur, e), e).panic = NoPanic
              /\ Size(Remove(Insert(cur, e), e)) = Size(cur)
              /\ Slice(Remove(Insert(cur, e), e)) = Slice(cur)

\* C10: after n distinct elements were inserted in any order, removing each
\* of them once in any order makes every Remove return true and keeps the
\* traversal ascending and Size() equal to its length; after the last
\* removal Empty() is true.
C10_RemoveEachOnce ==
  phase = "drain"
    => /\ returned
       /\ call.result
       /\ strictlyAscending(Slice(cur))
       /\ Size(cur) = Len(Slice(cur))
       /\ pending = {} => Empty(cur)

\* C11: Min() and Max() panic exactly when the set has no elements: in every
\* state reached by Insert and Remove calls, Empty() is true iff there is no
\* root, so that Min() and Max() return after Empty() answered false and
\* panic after it answered true.
C11_MinMaxFailIffEmpty ==
  returned
    => /\ Empty(cur) <=> root = Nil
       /\ Empty(cur) <=> Min(cur).panic # NoPanic
       /\ Empty(cur) <=> Max(cur).panic # NoPanic

\* C12: no Insert or Remove call panics, whatever calls came before it.
C12_InsertRemoveNeverPanic ==
  call.name \in {"Insert", "Remove"} => panic = NoPanic

\* C13: whenever Size() > 0, Min() returns the first element of Slice() and
\* Max() returns the last.
C13_MinMaxAreSliceEnds ==
  (returned /\ Size(cur) > 0)
    => /\ Len(Slice(cur)) > 0
       /\ Min(cur) = [panic |-> NoPanic, val |-> Slice(cur)[1]]
       /\ Max(cur) = [panic |-> NoPanic, val |-> Slice(cur)[Len(Slice(cur))]]

\* C14: InsertSlice(items), for items in any order and with duplicates, leaves
\* a set whose Slice() is the ascending sequence, without duplicates, of the
\* items and the elements the set held before; the bulk constructor is the
\* same call on a new set.
C14_InsertSliceSortsAndMerges ==
  [][(call'.name = "InsertSlice")
       => /\ returned'
          /\ Slice(cur') = sorted(elems(cur) \cup gained(cur, call'.item))]_vars

C14_Witness ==
  /\ returned
  /\ call.name = "InsertSlice"
  /\ Len(call.item) = MaxLen
  /\ comparison(call.item[1], call.item[2]) > 0
  /\ Len(Slice(cur)) = 2 * MaxLen

\* C15: InsertSlice(items) and RemoveSlice(items) return true iff every
\* element of items caused a modification, that is, iff no two items compare
\* equal and none of them was in the set (InsertSlice), or all of them
\* were (RemoveSlice); whatever they return, every item has been inserted,
\* or removed.
C15_BulkAppliesAllReportsAll ==
  [][/\ (call'.name = "InsertSlice" /\ returned')
          => /\ call'.result
                  = /\ firsts(call'.item) = 1..Len(call'.item)
                    /\ \A i \in 1..Len(call'.item) : ~has(cur, call'.item[i])
             /\ elems(cur') = elems(cur) \cup gained(cur, call'.item)
     /\ (call'.name = "RemoveSlice" /\ returned')
          => /\ call'.result
                  = /\ firsts(call'.item) = 1..Len(call'.item)
                    /\ \A i \in 1..Len(call'.item) : has(cur, call'.item[i])
             /\ elems(cur')
                  = {x \in elems(cur) :
                       \A i \in 1..Len(call'.item) : comparison(x, call'.item[i]) # 0}]_vars

\* C16: s.Union(o) returns a new set whose Slice() is the ascending sequence,
\* without duplicates, of the elements of s and of o, and the call changes
\* neither s nor o.
C16_UnionMergesAndKeepsInputs ==
  [][(call'.name = "Union")
       => /\ made'.panic = NoPanic
          /\ Slice(made') = sorted(elems(cur) \cup gained(cur, Slice(other)))
          /\ Size(made') = Len(Slice(made'))
          /\ cur' = cur
          /\ other' = other]_vars

C16_Witness ==
  /\ call.name = "Union"
  /\ Slice(cur) = <<1, 2, 3>>
  /\ Slice(other) = <<1, 2, 4, 5>>
  /\ Slice(made) = <<1, 2, 3, 4, 5>>

\* C17 as the spec words it: s.Subset(o) is true iff every element of the
\* receiver s is contained in o, so that the empty set's Subset(o) is true
\* for every o.
C17_SubsetOfArgument ==
  (call.name = "Subset") => (call.result <=> within(cur, other))

\* C17, amended: s.Subset(o) is true iff every element of the argument o is
\* contained in the receiver s; in particular s.Subset(o) is true for every
\* s when o is empty, and s.Subset(s) is true.
C17_ArgumentIsSubset ==
  /\ (call.name = "Subset") => (call.result <=> within(other, cur))
  /\ (call.name = "Subset" /\ other.root = Nil) => call.result
  /\ (phase # "new") => Subset(cur, cur)

C17_Witness ==
  /\ call = [name |-> "Subset", item |-> 0, result |-> TRUE]
  /\ Len(Slice(other)) = 2
  /\ Len(Slice(cur)) = 3

\* C18: s.Subset(o) is true iff every element of the argument o is in the
\* receiver s: with s empty and o = {1,2,3} it is false, with s = {1,2,3} and
\* o empty it is true, {1,2,3}.Subset({1,2,3,4,5}) is false and
\* {1,2,3,4,5}.Subset({1,2,3,5}) is true.
C18_SubsetAsTested ==
  (call.name = "Subset")
    => /\ call.result <=> \A i \in 1..Len(Slice(other)) : has(cur, Slice(other)[i])
       /\ (Slice(cur) = << >> /\ Slice(other) = <<1, 2, 3>>) => ~call.result
       /\ (Slice(cur) = <<1, 2, 3>> /\ Slice(other) = << >>) => call.result
       /\ (Slice(cur) = <<1, 2, 3>> /\ Slice(other) = <<1, 2, 3, 4, 5>>) => ~call.result
       /\ (Slice(cur) = <<1, 2, 3, 4, 5>> /\ Slice(other) = <<1, 2, 3, 5>>) => call.result

C18_Witness ==
  /\ call = [name |-> "Subset", item |-> 0, result |-> TRUE]
  /\ Slice(cur) = <<1, 2, 3, 4, 5>>
  /\ Slice(other) = <<1, 2, 3, 5>>

\* C19: Compare(x, y) returns -1 when x < y, 1 when x > y and 0 otherwise: it
\* is a total order, Compare(x, y) = -Compare(y, x), and Compare(x, y) = 0
\* iff x = y.
C19_CompareIsTotalOrder ==
  (call.name = "Compare")
    => /\ call.item[1] < call.item[2] => call.result = -1
       /\ call.item[1] > call.item[2] => call.result = 1
       /\ call.item[1] = call.item[2] => call.result = 0
       /\ call.result = 0 - Compare(call.item[2], call.item[1])
       /\ call.result = 0 <=> call.item[1] = call.item[2]
       /\ \A z \in Ordinals :
            (call.result <= 0 /\ Compare(call.item[2], z) <= 0)
              => Compare(call.item[1], z) <= 0

C19_Witness ==
  /\ call.name = "Compare"
  /\ call.item[1] > call.item[2]
  /\ call.result = 1

\* C20: when Remove locates a node with two children and returns, the node
\* taken out of the tree is the in-order successor, the minimum of the right
\* subtree: the located node is still in the tree, holds the element of the
\* successor, and its subtree holds what it held before apart from the
\* element removed.
C20_SuccessorIsSpliced ==
  returned
    => \A e \in Elements :
         LET n == locate(cur, root, e)
         IN (/\ n # Nil
             /\ node[n].left # Nil
             /\ node[n].right # Nil
             /\ Remove(cur, e).panic = NoPanic)
              => /\ n \in treeNodes(Remove(cur, e))
                 /\ min(cur, node[n].right) \notin treeNodes(Remove(cur, e))
                 /\ Remove(cur, e).node[n].element
                      = node[min(cur, node[n].right)].element
                 /\ {Remove(cur, e).node[p].element : p \in under(Remove(cur, e), n)}
                      = {node[p].element : p \in under(cur, n)} \ {node[n].element}

\* C21: from the empty set, after each call of any sequence of Insert calls
\* the root is black, no red node has a red child, every path from the root
\* to an absent child holds the same number of black nodes, Slice() is
\* strictly ascending, and Size() is its length.
C21_InsertsKeepInvariants ==
  /\ returned
  /\ root # Nil => node[root].color = black
  /\ \A p \in treeNodes(cur) :
       isRed(cur, p) => isBlack(cur, node[p].left) /\ isBlack(cur, node[p].right)
  /\ Cardinality(blackCounts(cur, root)) = 1
  /\ strictlyAscending(Slice(cur))
  /\ Size(cur) = Len(Slice(cur))

C21_Witness ==
  /\ call.name = "Insert"
  /\ call.result
  /\ Len(Slice(cur)) >= 5
  /\ \E p \in treeNodes(cur) : isRed(cur, p)

\* C22: if the tree satisfies the red-black invariants and Remove is called
\* on an element whose node has at most one child, the call returns, the tree
\* satisfies the red-black invariants again and holds the previous elements
\* minus the removed one.
C22_RemoveWithOneChildAtMost ==
  (returned /\ redBlack(cur))
    => \A e \in Elements \cup Tokens :
         (/\ locate(cur, root, e) # Nil
          /\ \/ node[locate(cur, root, e)].left = Nil
             \/ node[locate(cur, root, e)].right = Nil)
           => /\ Remove(cur, e).panic = NoPanic
              /\ Remove(cur, e).ret
              /\ redBlack(Remove(cur, e))
              /\ Slice(Remove(cur, e)) = without(Slice(cur), e)

\* a black node whose only child is red, and a black leaf, are there to be
\* removed
C22_Witness ==
  /\ returned
  /\ redBlack(cur)
  /\ \E p \in treeNodes(cur) :
       /\ node[p].color = black
       /\ node[p].left = Nil
       /\ isRed(cur, node[p].right)
  /\ \E p \in treeNodes(cur) :
       /\ node[p].color = black
       /\ node[p].left = Nil
       /\ node[p].right = Nil
       /\ p # root
       /\ isRed(cur, siblingOf(cur, p).val)

\* C23: after every Remove call that returns, no left or right link of a
\* node of the tree leads to the marker, which is not the root either, and
\* the marker is black with no parent, left or right link; Slice(), Min()
\* and Max() never show its element.
C23_MarkerDetachedAndReset ==
  returned
    => /\ root # marker
       /\ marker \notin treeNodes(cur)
       /\ \A p \in treeNodes(cur) : node[p].left # marker /\ node[p].right # marker
       /\ node[marker] = newNode(0, black)
       /\ \A i \in 1..Len(Slice(cur)) : Slice(cur)[i] # node[marker].element
       /\ root # Nil => /\ min(cur, root) # marker
                        /\ max(cur, root) # marker

\* a black leaf beside a black sibling with a red child was removed: the three
\* nodes left are black
C23_Witness ==
  /\ returned
  /\ call.name = "Remove"
  /\ call.result
  /\ size = 3
  /\ Cardinality(treeNodes(cur)) = 3
  /\ \A p \in treeNodes(cur) : node[p].color = black

\* C24: whenever Insert or Remove returns, the root has no parent, and every
\* other node of the tree has a parent of which it is the left or the right
\* child: the parent of every child of a node is that node.
C24_ParentsAgreeWithLinks ==
  returned
    => /\ root # Nil => node[root].parent = Nil
       /\ \A p \in treeNodes(cur) \ {root} :
            /\ node[p].parent # Nil
            /\ \/ node[node[p].parent].left = p
               \/ node[node[p].parent].right = p
       /\ \A p \in treeNodes(cur) :
            /\ node[p].left # Nil => node[node[p].left].parent = p
            /\ node[p].right # Nil => node[node[p].right].parent = p

C24_Witness ==
  /\ returned
  /\ call.name = "Remove"
  /\ call.result
  /\ \E p \in treeNodes(cur) :
       /\ node[p].parent # Nil
       /\ node[node[p].parent].parent # Nil

\* C25: no sequence of Insert and Remove calls reaches the panics of
\* replaceChild, siblingOf and uncleOf, which are raised for a node that is
\* neither the left nor the right child of its parent.
C25_NoStructuralPanic ==
  panic \notin {PanicReplaceChild, PanicSiblingOf, PanicUncleOf}

\* an Insert that read the uncle and found it red: the children of the root
\* are black and below them is the new red node
C25_Witness ==
  /\ returned
  /\ call.name = "Insert"
  /\ call.result
  /\ root # Nil
  /\ node[root].left # Nil
  /\ node[root].right # Nil
  /\ node[node[root].left].color = black
  /\ node[node[root].right].color = black
  /\ \E p \in treeNodes(cur) : isRed(cur, p) /\ locate(cur, root, call.item) = p

\* C26: in every deletion fixup a Remove call on a reachable set runs, a
\* deficit node that is not the root has a sibling, and after the red-sibling
\* step the sibling read anew is present and black.
C26_FixupFindsSiblings ==
  returned
    => \A e \in Elements \cup Tokens :
         (/\ locate(cur, root, e) # Nil
          /\ deletedFor(cur, locate(cur, root, e)) = black)
           => siblingsPresent(splicedFor(cur, locate(cur, root, e)).st,
                              splicedFor(cur, locate(cur, root, e)).moved)

\* C27: rotateLeft and rotateRight, applied to a node of a reachable tree
\* that has the child the rotation needs, leave the elements and the in-order
\* sequence of the whole tree unchanged; afterwards the former child is the
\* parent of n, the grandchild subtree that changed sides is a child of n, and
\* the parent n had, or the root pointer, links to the former child.
C27_RotationsRelinkAndKeepOrder ==
  returned
    => \A n \in treeNodes(cur) :
         /\ node[n].right # Nil
              => rotated(cur, rotateLeft(cur, n), n, "right", node[n].right,
                         node[node[n].right].left, node[n].parent)
         /\ node[n].left # Nil
              => rotated(cur, rotateRight(cur, n), n, "left", node[n].left,
                         node[node[n].left].right, node[n].parent)

\* a tree where rotateRight applies below the root and rotateLeft applies,
\* each with a grandchild subtree to move
C27_Witness ==
  /\ returned
  /\ \E n \in treeNodes(cur) :
       /\ node[n].parent # Nil /\ node[n].left # Nil
       /\ node[node[n].left].right # Nil
  /\ \E n \in treeNodes(cur) :
       /\ node[n].right # Nil
       /\ node[node[n].right].left # Nil

\* C28: every Insert and every Remove call on a reachable set ends; each
\* recursive call of the insertion fixup and of the deletion fixup is handed
\* a strict ancestor of the node of its caller, and the call makes no more
\* recursive fixup calls than the tree is high.
C28_FixupsClimb ==
  returned
    => \A e \in Elements \cup Tokens :
         /\ NodeIds \ live(cur) # {} => climbed(cur, Insert(cur, e))
         /\ climbed(cur, Remove(cur, e))

\* a Remove whose fixup recurses as many times as the tree is high
C28_Witness ==
  /\ returned
  /\ height(cur) >= 1
  /\ \E e \in Elements : Remove(cur, e).steps = height(cur)

\* C29: a Remove call for an element that is not in the set returns false
\* and leaves the whole state as it was: the size, the root, and every node
\* with its element, colour and links, the marker node included.
C29_RemoveAbsentChangesNothing ==
  [][(call'.name = "Remove" /\ ~has(cur, call'.item))
       => /\ panic' = NoPanic
          /\ call'.result = FALSE
          /\ size' = size
          /\ root' = root
          /\ node' = node]_vars

\* a Remove call for an element that a set of three or more does not hold
\* has returned false
C29_Witness ==
  /\ returned
  /\ call.name = "Remove"
  /\ call.result = FALSE
  /\ ~has(cur, call.item)
  /\ size >= 3
  /\ Len(Slice(cur)) >= 3

\* C30: Size() is the number of Insert calls that returned true less the
\* number of Remove calls that returned true: it is 0 before any call, every
\* call that returns true moves it by exactly one, up for Insert and down for
\* Remove, a call that returns false leaves it alone, and it is never negative.
C30_SizeCountsTrueCalls ==
  /\ size = 0
  /\ [][panic' = NoPanic => size' = size + counted(call'.name, call'.result)]_vars
  /\ [](size >= 0)

\* a Remove call that returned true has left a set that counts two or more
\* elements
C30_Witness ==
  /\ returned
  /\ call.name = "Remove"
  /\ call.result = TRUE
  /\ size >= 2

====
